---- MODULE Spec2Model ----
(***************************************************************************)
(* Model of moabb's paradigm layer: the P300 recipe (paradigms/p300.py)    *)
(* and the batch driver BaseParadigm.get_data (paradigms/base.py).         *)
(*                                                                         *)
(* Times are integers (one unit is a tenth of a second).  An optional      *)
(* Python value is a sequence: <<>> is None and <<v>> is the value v.      *)
(***************************************************************************)
EXTENDS Integers, Sequences, FiniteSets, TLC

VARIABLES
    args,       \* keyword arguments handed to BaseP300.__init__
    self,       \* the recipe object: None until __init__ has returned
    dataset,    \* the dataset collaborator (paradigm, event_id, interval)
    pc,         \* position of the running call
    err,        \* the exception that left the call, "none" otherwise
    valid,      \* value returned by is_valid, None before it has run
    call,       \* arguments of the get_data call in progress
    cachefile,  \* /tmp/moabb/cache/<prefix>.pkl
    cachefail,  \* cache steps that failed during the call
    data,       \* keys of dataset.get_data(subjects), in traversal order
    i,          \* index in data of the next run of the loop
    raw,        \* the recording handed to the latest process_raw, as left by it
    proc,       \* what the latest process_raw did
    X,          \* get_data's accumulators
    labels,
    metadata,
    touched,    \* collaborator calls made so far by get_data
    printed,    \* messages printed so far by get_data
    log,        \* what process_raw came to, for each run or call finished
    ret         \* the tuple get_data returned

batch == <<call, cachefile, cachefail, data, i, raw, proc, X, labels, metadata,
           touched, printed, log, ret>>
vars == <<args, self, dataset, pc, err, valid, call, cachefile, cachefail, data,
          i, raw, proc, X, labels, metadata, touched, printed, log, ret>>

None == <<>>
Some(v) == <<v>>
Val(o) == o[1]
Opt(S) == {None} \cup {Some(v) : v \in S}

\* ------------------------------------------------------------------ bounds
MaxTime == 2
MaxEventList == 2

Times == (0 - 1)..MaxTime
Labels == {"Target", "NonTarget", "Other"}
ParadigmTags == {"p300", "imagery", "ssvep"}

RECURSIVE SeqsUpTo(_, _)
SeqsUpTo(S, n) ==
    IF n = 0 THEN {<<>>}
    ELSE LET shorter == SeqsUpTo(S, n - 1)
         IN  shorter \cup {Append(s, x) : s \in shorter, x \in S}

Range(s) == {s[k] : k \in DOMAIN s}

\* Python truthiness of an optional list: None and [] are falsy.
Truthy(o) == o # None /\ Len(Val(o)) > 0

\* A value of reject_from_eog: a bool, a channel name or a dict of keyword
\* arguments for find_eog_events, and whether Python takes it as true
\* (False, "" and {} are falsy).
EogSettings == [type : {"bool", "str", "dict"}, truthy : BOOLEAN]

\* ------------------------------------------------------- BaseP300.__init__
DefaultArgs ==
    [filters |-> <<<<1, 24>>>>, events |-> None, tmin |-> 0, tmax |-> None,
     reject_tmin |-> None, reject_tmax |-> None, baseline |-> None,
     channels |-> None, resample |-> None, reject_uv |-> None,
     reject_from_eog |-> [type |-> "bool", truthy |-> FALSE]]

\* InitError with the reject_tmin test written as the message of line 91
\* words it ("greater or equal"): reject_tmin = tmin is let through.
InitError_lenient(a) ==
    IF a.tmax # None /\ a.tmin >= Val(a.tmax) THEN "ValueError"
    ELSE IF a.reject_tmin # None /\ Val(a.reject_tmin) < a.tmin THEN "ValueError"
    ELSE IF a.reject_tmax # None /\ Val(a.reject_tmax) <= a.tmin THEN "ValueError"
    ELSE IF a.reject_tmin # None /\ a.reject_tmax # None
            /\ Val(a.reject_tmin) >= Val(a.reject_tmax) THEN "ValueError"
    ELSE "none"

\* The first check of __init__ that fails, in the order the code runs them.
InitError(a) ==
    IF a.tmax # None /\ a.tmin >= Val(a.tmax) THEN "ValueError"
    ELSE IF a.reject_tmin # None /\ Val(a.reject_tmin) <= a.tmin THEN "ValueError"
    ELSE IF a.reject_tmax # None /\ Val(a.reject_tmax) <= a.tmin THEN "ValueError"
    ELSE IF a.reject_tmin # None /\ a.reject_tmax # None
            /\ Val(a.reject_tmin) >= Val(a.reject_tmax) THEN "ValueError"
    ELSE "none"

\* __init__ stores every argument on the object; a raise leaves no object.
BaseP300_init ==
    /\ pc = "new"
    /\ LET e == InitError(args)
       IN  IF e = "none"
           THEN /\ self' = Some(args)
                /\ pc' = "constructed"
                /\ err' = "none"
           ELSE /\ self' = None
                /\ pc' = "raised"
                /\ err' = e
    /\ UNCHANGED <<args, dataset, valid>>
    /\ UNCHANGED batch

\* ------------------------------------------------------- BaseP300.is_valid
\* is_valid without the test of the paradigm tag (lines 103-104)
is_valid_no_tag(slf, ds) ==
    IF Truthy(slf.events) /\ ~(Range(Val(slf.events)) \subseteq ds.event_id)
    THEN FALSE
    ELSE TRUE

is_valid(slf, ds) ==
    LET ret1 == IF ~(ds.paradigm = "p300") THEN FALSE ELSE TRUE
    IN  IF Truthy(slf.events) /\ ~(Range(Val(slf.events)) \subseteq ds.event_id)
        THEN FALSE
        ELSE ret1

IsValidCall ==
    /\ pc = "constructed"
    /\ valid' = Some(is_valid(Val(self), dataset))
    /\ pc' = "checked"
    /\ UNCHANGED <<args, self, dataset, err>>
    /\ UNCHANGED batch

\* ------------------------------------------------------------- recordings
MaxEvents == 2
MaxRuns == 2
NumChannels == 2
MaxBlinks == 2
MaxCalls == 2

\* A recording, as far as the pipeline can tell recordings apart: whether it
\* has a marker channel, whether decoding its annotations raises ValueError,
\* how many of its events carry a code of the recipe's vocabulary, and how
\* many windows each filter band retains once mne.Epochs and drop_bad are done.
\* Without an amplitude threshold every band drops the same windows.
\* For a recipe with reject_from_eog set: how many blinks find_eog_events
\* detects and, for a channel name, whether raw.ch_names holds it.
\* annotations counts the "bad blink" entries of raw.annotations: none in a
\* recording as the dataset hands it over.
Recordings(slf) ==
    LET nb == Len(slf.filters)
        eog == slf.reject_from_eog
        blinks == IF eog.truthy THEN 0..MaxBlinks ELSE {0}
        eog_ch == IF eog.truthy /\ eog.type = "str" THEN BOOLEAN ELSE {TRUE}
    IN  {[stim |-> FALSE, annot_error |-> TRUE, nevents |-> 0,
          kept |-> [b \in 1..nb |-> 0], blinks |-> bl, eog_ch |-> ch,
          annotations |-> 0] : bl \in blinks, ch \in eog_ch}
        \cup
        {r \in [stim : BOOLEAN, annot_error : {FALSE}, nevents : 0..MaxEvents,
                kept : [1..nb -> 0..MaxEvents], blinks : blinks,
                eog_ch : eog_ch, annotations : {0}] :
            /\ \A b \in 1..nb : r.kept[b] <= r.nevents
            /\ slf.reject_uv = None => \A b \in 1..nb : r.kept[b] = r.kept[1]}

\* ------------------------------------------------- process_raw: the window
tmin_abs(slf, ds) == slf.tmin + ds.interval[1]

tmax_abs(slf, ds) ==
    IF slf.tmax = None THEN ds.interval[2] ELSE Val(slf.tmax) + ds.interval[1]

baseline_abs(slf, ds) ==
    IF slf.baseline # None
    THEN Some(<<Val(slf.baseline)[1] + ds.interval[1],
                Val(slf.baseline)[2] + ds.interval[1]>>)
    ELSE None

bmin(slf, ds) ==
    IF slf.baseline # None
    THEN IF Val(baseline_abs(slf, ds))[1] < tmin_abs(slf, ds)
         THEN Val(baseline_abs(slf, ds))[1] ELSE tmin_abs(slf, ds)
    ELSE tmin_abs(slf, ds)

bmax(slf, ds) ==
    IF slf.baseline # None
    THEN IF Val(baseline_abs(slf, ds))[2] > tmax_abs(slf, ds)
         THEN Val(baseline_abs(slf, ds))[2] ELSE tmax_abs(slf, ds)
    ELSE tmax_abs(slf, ds)

\* epochs.crop(tmin, tmax) runs when the baseline reaches outside the window
Crop(slf, ds) ==
    IF bmin(slf, ds) < tmin_abs(slf, ds) \/ bmax(slf, ds) > tmax_abs(slf, ds)
    THEN Some(<<tmin_abs(slf, ds), tmax_abs(slf, ds)>>)
    ELSE None

\* BaseParadigm.process_raw: mne.Epochs(tmin=bmin, tmax=bmax, baseline=baseline)
BaseEpochs(slf, ds) ==
    [tmin |-> bmin(slf, ds), tmax |-> bmax(slf, ds),
     baseline |-> baseline_abs(slf, ds), crop |-> Crop(slf, ds)]

\* BaseP300.process_raw: epoching_kwargs = dict(tmin=tmin, tmax=tmax, ...),
\* returned to the caller as part of the fourth element of the tuple
P300Epochs(slf, ds) ==
    [tmin |-> tmin_abs(slf, ds), tmax |-> tmax_abs(slf, ds),
     baseline |-> baseline_abs(slf, ds), crop |-> Crop(slf, ds)]

\* ------------------------------------------------ BaseP300.process_raw
Raise(e) == [kind |-> "raise", exc |-> e]
ReturnNone == [kind |-> "none"]

\* np.array(X).transpose((1, 2, 3, 0)) of the per-band arrays: bands that kept
\* different numbers of windows do not stack, and the call raises ValueError.
Stackable(kept) == \A b \in DOMAIN kept : kept[b] = kept[1]

\* lines 125-128: a channel name that raw.ch_names does not hold
EogChannelMissing(slf, r) ==
    /\ slf.reject_from_eog.truthy
    /\ slf.reject_from_eog.type = "str"
    /\ ~r.eog_ch

\* lines 121-141: the recording object as the call leaves it.
\* raw.set_annotations(raw.annotations + blink_annot) writes one "bad blink"
\* annotation per detected blink to the object the caller handed in; the
\* band loop filters raw.copy() and writes nothing back.
P300_raw_after(slf, r) ==
    IF slf.reject_from_eog.truthy /\ ~EogChannelMissing(slf, r)
    THEN [r EXCEPT !.annotations = @ + r.blinks]
    ELSE r

\* numpy's transpose: axis k of the result is axis perm[k] (0-based) of axes
Transpose(axes, perm) == [k \in DOMAIN perm |-> axes[perm[k] + 1]]

\* epochs.get_data() of one band
BandAxes == <<"windows", "channels", "samples">>

\* np.array(X).transpose((1, 2, 3, 0)) of the list of the bands' arrays
StackedAxes == Transpose(<<"band">> \o BandAxes, <<1, 2, 3, 0>>)

\* A second call finds the "bad blink" annotations of the first one in
\* raw.annotations and appends the same ones again; they cover the same
\* spans, so the windows mne.Epochs rejects by annotation are the same.
P300_process_raw(slf, r, ds, return_epochs) ==
    IF EogChannelMissing(slf, r)
    THEN Raise("ValueError")
    ELSE IF ~r.stim /\ r.annot_error
    THEN Raise("ValueError")            \* events_from_annotations, no handler
    ELSE IF r.nevents = 0
    THEN ReturnNone                     \* pick_events raised RuntimeError
    ELSE IF slf.reject_tmax # None /\ Val(slf.reject_tmax) >= ds.interval[2]
    THEN Raise("ValueError")
    ELSE LET nb == Len(slf.filters)
             nlabels == r.kept[nb]      \* epochs of the last band of the loop
         IN  IF return_epochs
             THEN [kind |-> "tuple", x |-> [array |-> FALSE, bands |-> r.kept],
                   nlabels |-> nlabels, nrows |-> nlabels,
                   epoching |-> P300Epochs(slf, ds)]
             ELSE IF nb = 1
             THEN [kind |-> "tuple",
                   x |-> [array |-> TRUE, rank |-> Len(BandAxes),
                          axes |-> BandAxes, windows |-> r.kept[1]],
                   nlabels |-> nlabels, nrows |-> nlabels,
                   epoching |-> P300Epochs(slf, ds)]
             ELSE IF Stackable(r.kept)
             THEN [kind |-> "tuple",
                   x |-> [array |-> TRUE, rank |-> Len(StackedAxes),
                          axes |-> StackedAxes, windows |-> r.kept[1]],
                   nlabels |-> nlabels, nrows |-> nlabels,
                   epoching |-> P300Epochs(slf, ds)]
             ELSE Raise("ValueError")

\* ------------------------------------------------ BaseParadigm.process_raw
\* With return_epochs=False.  The handler at lines 118-120 turns a ValueError
\* of events_from_annotations into a return of None.  No amplitude rejection
\* here: every band keeps the windows mne.Epochs kept.
Base_process_raw(slf, r, ds) ==
    IF ~r.stim /\ r.annot_error
    THEN ReturnNone
    ELSE IF r.nevents = 0
    THEN ReturnNone
    ELSE LET nb == Len(slf.filters)
         IN  [kind |-> "tuple",
              x |-> [array |-> TRUE,
                     rank |-> Len(IF nb = 1 THEN BandAxes ELSE StackedAxes),
                     axes |-> IF nb = 1 THEN BandAxes ELSE StackedAxes,
                     windows |-> r.kept[1]],
              nlabels |-> r.kept[nb], nrows |-> r.kept[nb],
              epoching |-> BaseEpochs(slf, ds)]

\* One recording handed to process_raw, outside any batch: call keeps the
\* recording as it was at entry, log what each call so far came to.
ProcessRaw(method, r, p) ==
    /\ call' = Some([method |-> method, return_epochs |-> FALSE, raw |-> r])
    /\ proc' = Some(p)
    /\ log' = Append(log, p)
    /\ IF p.kind = "raise"
       THEN pc' = "raised" /\ err' = p.exc
       ELSE pc' = "processed" /\ err' = err
    /\ UNCHANGED <<args, self, dataset, valid, cachefile, cachefail, data, i,
                   X, labels, metadata, touched, printed, ret>>

\* The recordings a caller can hand over: one fresh from the dataset, or the
\* object an earlier call has already worked on.
Handed == IF raw = None THEN Recordings(Val(self)) ELSE {Val(raw)}

\* An object has one process_raw: a later call runs the method the first ran.
Dispatches(method) == IF call = None THEN TRUE ELSE Val(call).method = method

\* BaseParadigm.process_raw never calls drop_bad: what a band keeps is what
\* mne.Epochs keeps of the events, the same in every band.
BaseParadigm_process_raw ==
    /\ pc \in {"constructed", "processed"}
    /\ Len(log) < MaxCalls
    /\ Dispatches("BaseParadigm.process_raw")
    /\ \E r \in {q \in Handed : Stackable(q.kept)} :
        /\ raw' = Some(r)
        /\ ProcessRaw("BaseParadigm.process_raw", r,
                      Base_process_raw(Val(self), r, dataset))

BaseP300_process_raw ==
    /\ pc \in {"constructed", "processed"}
    /\ Len(log) < MaxCalls
    /\ Dispatches("BaseP300.process_raw")
    /\ \E r \in Handed :
        /\ raw' = Some(P300_raw_after(Val(self), r))
        /\ ProcessRaw("BaseP300.process_raw", r,
                      P300_process_raw(Val(self), r, dataset, FALSE))

\* ------------------------------------------------ BaseParadigm.get_data
CallArgs == [method : {"get_data"}, return_epochs : BOOLEAN, cache : BOOLEAN]

Rows(n, key) == [k \in 1..n |-> key]

RECURSIVE Flatten(_)
Flatten(ss) == IF ss = <<>> THEN <<>> ELSE Head(ss) \o Flatten(Tail(ss))

NextKey(key, level) ==
    CASE level = "run" -> [key EXCEPT !.run = @ + 1]
      [] level = "session" -> [key EXCEPT !.session = @ + 1, !.run = 1]
      [] level = "subject" ->
            [subject |-> key.subject + 1, session |-> 1, run |-> 1]

\* The keys of the nested mapping subject -> session -> run, in the order the
\* three nested loops of get_data visit them.
RECURSIVE DataKeys(_)
DataKeys(n) ==
    IF n = 0 THEN {<<>>}
    ELSE IF n = 1 THEN {<<[subject |-> 1, session |-> 1, run |-> 1]>>}
    ELSE {Append(d, NextKey(d[n - 1], level)) :
            d \in DataKeys(n - 1), level \in {"run", "session", "subject"}}

Datasets == UNION {DataKeys(n) : n \in 0..MaxRuns}

\* get_data is entered on a constructed recipe
get_data ==
    /\ pc = "constructed"
    /\ \E c \in CallArgs : call' = Some(c) /\
            pc' = IF c.cache THEN "cache_read" ELSE "validate"
    /\ UNCHANGED <<args, self, dataset, err, valid, cachefile, cachefail, data,
                   i, raw, proc, X, labels, metadata, touched, printed,
                   log, ret>>

\* lines 244-259: os.makedirs stands outside the try; open and pickle.load
\* stand inside it
CacheRead ==
    /\ pc = "cache_read"
    /\ \/ /\ cachefail' = cachefail \cup {"makedirs"}
          /\ pc' = "raised"
          /\ err' = "OSError"
          /\ UNCHANGED <<ret, printed>>
       \/ /\ cachefile.state = "stored"
          /\ ret' = Some([X |-> cachefile.d.X, labels |-> cachefile.d.labels,
                          metadata |-> cachefile.d.metadata,
                          processed_runs |-> None])
          /\ printed' = printed \cup {<<"Using cached data">>}
          /\ pc' = "returned"
          /\ UNCHANGED <<err, cachefail>>
       \/ /\ cachefail' = cachefail \cup {"read"}
          /\ printed' = printed \cup {<<"Could not read cached data">>}
          /\ pc' = "validate"
          /\ UNCHANGED <<err, ret>>
    /\ UNCHANGED <<args, self, dataset, valid, call, cachefile, data, i, raw,
                   proc, X, labels, metadata, touched, log>>

\* Validate with the check placed after line 265: the recordings are loaded
\* before the dataset is refused
Validate_late ==
    /\ pc = "validate"
    /\ valid' = Some(is_valid(Val(self), dataset))
    /\ touched' = touched \cup {"dataset.get_data"}
    /\ IF is_valid(Val(self), dataset)
       THEN pc' = "load" /\ err' = err
       ELSE pc' = "raised" /\ err' = "AssertionError"
    /\ UNCHANGED <<args, self, dataset, call, cachefile, cachefail, data,
                   i, raw, proc, X, labels, metadata, printed, log, ret>>

\* lines 261-263
Validate ==
    /\ pc = "validate"
    /\ valid' = Some(is_valid(Val(self), dataset))
    /\ IF is_valid(Val(self), dataset)
       THEN pc' = "load" /\ err' = err
       ELSE pc' = "raised" /\ err' = "AssertionError"
    /\ UNCHANGED <<args, self, dataset, call, cachefile, cachefail, data,
                   i, raw, proc, X, labels, metadata, touched, printed,
                   log, ret>>

\* lines 265-271: dataset.get_data, prepare_process, the empty accumulators
LoadData ==
    /\ pc = "load"
    /\ data' \in Datasets
    /\ touched' = touched \cup {"dataset.get_data", "prepare_process"}
    /\ X' = <<>>
    /\ labels' = <<>>
    /\ metadata' = <<>>
    /\ i' = 1
    /\ pc' = "loop"
    /\ UNCHANGED <<args, self, dataset, err, valid, call, cachefile, cachefail,
                   raw, proc, printed, log, ret>>

\* len(x[0]) at line 290.  x is an array [windows, channels, ...] in numeric
\* mode, so x[0] is the first window and its length the channel count, and
\* x[0] of an array without windows raises IndexError (None here).  In
\* windowed-object mode x is the list of the bands' epochs and len(x[0]) is
\* the number of epochs of the first band.
Len_x0(x) ==
    IF x.array
    THEN IF x.windows = 0 THEN None ELSE Some(NumChannels)
    ELSE Some(x.bands[1])

\* lines 272-304: one pass of the innermost loop
ProcessRun ==
    /\ pc = "loop"
    /\ i <= Len(data)
    /\ \E r \in Recordings(Val(self)) :
        LET c == Val(call)
            key == data[i]
            p == P300_process_raw(Val(self), r, dataset, c.return_epochs)
        IN  /\ raw' = Some(P300_raw_after(Val(self), r))
            /\ proc' = Some(p)
            /\ touched' = touched \cup {"process_raw"}
            /\ CASE p.kind = "raise" ->
                    /\ pc' = "raised"
                    /\ err' = p.exc
                    /\ UNCHANGED <<i, X, labels, metadata, printed, log>>
                 [] p.kind = "none" ->
                    /\ i' = i + 1
                    /\ log' = Append(log, p)
                    /\ UNCHANGED <<pc, err, X, labels, metadata, printed>>
                 [] p.kind = "tuple" /\ Len_x0(p.x) = None ->
                    /\ pc' = "raised"
                    /\ err' = "IndexError"
                    /\ UNCHANGED <<i, X, labels, metadata, printed, log>>
                 [] p.kind = "tuple" /\ Len_x0(p.x) # None ->
                    /\ i' = i + 1
                    /\ log' = Append(log, p)
                    /\ IF Val(Len_x0(p.x)) > 0
                       THEN /\ metadata' = Append(metadata, Rows(p.nrows, key))
                            /\ X' = IF c.return_epochs
                                    THEN Append(X, [key |-> key, bands |-> p.x.bands])
                                    ELSE X \o Rows(p.x.windows, key)
                            /\ labels' = labels \o Rows(p.nlabels, key)
                            /\ UNCHANGED printed
                       ELSE /\ printed' = printed \cup {<<"All epochs were removed in run", key>>}
                            /\ UNCHANGED <<X, labels, metadata>>
                    /\ UNCHANGED <<pc, err>>
    /\ UNCHANGED <<args, self, dataset, valid, call, cachefile, cachefail,
                   data, ret>>

\* X = [x[0] for x in X]; mne.concatenate_epochs(X)
ConcatenateEpochs(xs) ==
    Flatten([k \in DOMAIN xs |-> Rows(xs[k].bands[1], xs[k].key)])

\* The locals X and metadata as lines 306-311 rebind them, and the tuple of
\* line 332 (return_runs is False: processed_runs stays empty).
Result ==
    [X |-> IF Val(call).return_epochs THEN ConcatenateEpochs(X) ELSE X,
     labels |-> labels,
     metadata |-> Flatten(metadata),
     processed_runs |-> <<>>]

\* lines 306-311, and the return at line 332 when the cache is off:
\* pd.concat of an empty list raises ValueError
Finish ==
    /\ pc = "loop"
    /\ i > Len(data)
    /\ IF metadata = <<>>
       THEN /\ pc' = "raised"
            /\ err' = "ValueError"
            /\ ret' = ret
       ELSE /\ IF Val(call).cache
               THEN pc' = "cache_write" /\ ret' = ret
               ELSE pc' = "returned" /\ ret' = Some(Result)
            /\ err' = err
    /\ UNCHANGED <<args, self, dataset, valid, call, cachefile, cachefail,
                   data, i, raw, proc, X, labels, metadata, touched, printed,
                   log>>

\* lines 313-332: os.makedirs stands outside the try; open and pickle.dump
\* stand inside it.  A dump that fails after open("wb") leaves a broken file.
CacheWrite ==
    /\ pc = "cache_write"
    /\ \/ /\ cachefail' = cachefail \cup {"makedirs"}
          /\ pc' = "raised"
          /\ err' = "OSError"
          /\ UNCHANGED <<ret, printed, cachefile>>
       \/ /\ cachefile' = [state |-> "stored",
                           d |-> [X |-> Result.X, labels |-> Result.labels,
                                  metadata |-> Result.metadata]]
          /\ ret' = Some(Result)
          /\ pc' = "returned"
          /\ UNCHANGED <<err, cachefail, printed>>
       \/ /\ cachefail' = cachefail \cup {"write"}
          /\ cachefile' \in {cachefile, [state |-> "corrupt"]}
          /\ printed' = printed \cup {<<"Could not store cached data">>}
          /\ ret' = Some(Result)
          /\ pc' = "returned"
          /\ UNCHANGED err
    /\ UNCHANGED <<args, self, dataset, valid, call, data, i, raw, proc, X,
                   labels, metadata, touched, log>>

\* ------------------------------------------------------------ specifications
BatchIdle ==
    /\ call = None
    /\ cachefile = [state |-> "absent"]
    /\ cachefail = {}
    /\ data = <<>>
    /\ i = 0
    /\ raw = None
    /\ proc = None
    /\ X = <<>>
    /\ labels = <<>>
    /\ metadata = <<>>
    /\ touched = {}
    /\ printed = {}
    /\ log = <<>>
    /\ ret = None

IdleDataset == [paradigm |-> "p300", event_id |-> {"Target", "NonTarget"},
                interval |-> <<0, 1>>]

\* Construction alone: every combination of the four time arguments.
CtorArgs ==
    {[DefaultArgs EXCEPT !.tmin = t, !.tmax = tx, !.reject_tmin = rn,
                         !.reject_tmax = rx] :
        t \in Times, tx \in Opt(Times), rn \in Opt(Times), rx \in Opt(Times)}

InitCtor ==
    /\ args \in CtorArgs
    /\ self = None
    /\ dataset = IdleDataset
    /\ pc = "new"
    /\ err = "none"
    /\ valid = None
    /\ BatchIdle

NextCtor == BaseP300_init

SpecInit == InitCtor /\ [][NextCtor]_vars

\* Validity: every event whitelist against every dataset vocabulary and tag.
InitValid ==
    /\ args \in {[DefaultArgs EXCEPT !.events = ev] :
                    ev \in Opt(SeqsUpTo(Labels, MaxEventList))}
    /\ self = None
    /\ dataset \in [paradigm : ParadigmTags, event_id : SUBSET Labels,
                    interval : {<<0, 1>>}]
    /\ pc = "new"
    /\ err = "none"
    /\ valid = None
    /\ BatchIdle

NextValid == BaseP300_init \/ IsValidCall

SpecValid == InitValid /\ [][NextValid]_vars

\* The batch driver on a P300 recipe (events = ["Target", "NonTarget"], one
\* band or the two bands [1, 10] and [10, 24], with or without an amplitude
\* threshold), on p300 and non-p300 datasets, with every state of the cache.
FilterBanks == {<<<<1, 24>>>>, <<<<1, 10>>, <<10, 24>>>>}

BatchArgs ==
    {[DefaultArgs EXCEPT !.events = Some(<<"Target", "NonTarget">>),
                         !.filters = f, !.reject_uv = uv] :
        f \in FilterBanks, uv \in {None, Some(100)}}

\* what an earlier call on the same dataset and subjects left in the cache
StoredTriple ==
    LET key == [subject |-> 1, session |-> 1, run |-> 1]
    IN  [X |-> <<key>>, labels |-> <<key>>, metadata |-> <<key>>]

Init ==
    /\ args \in BatchArgs
    /\ self = None
    /\ dataset \in [paradigm : {"p300", "imagery"},
                    event_id : {{"Target", "NonTarget"}, {"Target"}},
                    interval : {<<0, 1>>}]
    /\ pc = "new"
    /\ err = "none"
    /\ valid = None
    /\ call = None
    /\ cachefile \in {[state |-> "absent"],
                      [state |-> "stored", d |-> StoredTriple]}
    /\ cachefail = {}
    /\ data = <<>>
    /\ i = 0
    /\ raw = None
    /\ proc = None
    /\ X = <<>>
    /\ labels = <<>>
    /\ metadata = <<>>
    /\ touched = {}
    /\ printed = {}
    /\ log = <<>>
    /\ ret = None

Next ==
    \/ BaseP300_init
    \/ get_data
    \/ CacheRead
    \/ Validate
    \/ LoadData
    \/ ProcessRun
    \/ Finish
    \/ CacheWrite

Spec == Init /\ [][Next]_vars

\* One recording through either process_raw: every epoch window and baseline
\* window, or every rejection setting with the default window; three task
\* intervals.
Intervals == {<<0, 1>>, <<0, MaxTime>>, <<1, MaxTime + 1>>}

WindowArgs ==
    {[DefaultArgs EXCEPT !.events = Some(<<"Target", "NonTarget">>),
                         !.tmin = t, !.tmax = tx, !.baseline = bl] :
        t \in Times, tx \in Opt(Times),
        bl \in Opt({b \in Times \X Times : b[1] <= b[2]})}

RejectArgs ==
    {[DefaultArgs EXCEPT !.events = Some(<<"Target", "NonTarget">>),
                         !.filters = f, !.reject_uv = uv, !.reject_tmax = rx,
                         !.reject_from_eog = eog] :
        f \in FilterBanks, uv \in {None, Some(100)}, rx \in Opt(Times),
        eog \in EogSettings}

InitRaw ==
    /\ args \in WindowArgs \cup RejectArgs
    /\ self = None
    /\ dataset \in [paradigm : {"p300"}, event_id : {{"Target", "NonTarget"}},
                    interval : Intervals]
    /\ pc = "new"
    /\ err = "none"
    /\ valid = None
    /\ BatchIdle

NextRaw == BaseP300_init \/ BaseParadigm_process_raw \/ BaseP300_process_raw

SpecRaw == InitRaw /\ [][NextRaw]_vars

\* ------------------------------------------------------------------ claims

\* The call returned what the loop computed (not what the cache held).
Computed == pc = "returned" /\ touched # {}

\* The pass of the loop that handled the latest recording raised.
RaisedInLoop == pc = "raised" /\ raw # None /\ i <= Len(data)

\* Key of the run the latest recording belongs to.
LatestKey == IF RaisedInLoop THEN data[i] ELSE data[i - 1]

RowsOf(rows, key) == Cardinality({k \in DOMAIN rows : rows[k] = key})

Position(key) == CHOOSE k \in 1..Len(data) : data[k] = key

Min(a, b) == IF a < b THEN a ELSE b
Max(a, b) == IF a > b THEN a ELSE b

\* C1: for every get_data call that returns, the label vector, the window
\* axis of the feature array (or the number of windowed-signal objects) and
\* the metadata table have the same length.
C1_LengthsAgree ==
    pc = "returned" =>
        /\ Len(Val(ret).labels) = Len(Val(ret).X)
        /\ Len(Val(ret).labels) = Len(Val(ret).metadata)

\* C2: with the cache disabled or missed, get_data on a dataset for which
\* is_valid returns false raises the incompatibility error before
\* dataset.get_data, prepare_process or process_raw has been called: no
\* collaborator call is ever made unless is_valid has returned true.
C2_InvalidDatasetFailsFast ==
    /\ valid = Some(FALSE) =>
            /\ pc = "raised"
            /\ err = "AssertionError"
            /\ touched = {}
            /\ data = <<>>
            /\ raw = None
    /\ touched # {} => valid = Some(TRUE)

\* an invalid dataset refused after a cache miss
C2_Witness ==
    /\ pc = "raised"
    /\ err = "AssertionError"
    /\ valid = Some(FALSE)
    /\ Val(call).cache
    /\ "read" \in cachefail
    /\ touched = {}

\* C3: a run whose recording has no event of the recipe's vocabulary makes
\* process_raw return None, contributes no row to X, labels and metadata and
\* never makes get_data raise, even when every run of the batch is skipped;
\* the rows of the other runs are all in the output.
C3_SkippedRunNeverRaises ==
    /\ (raw # None /\ ~Val(raw).annot_error /\ Val(raw).nevents = 0) =>
            /\ Val(proc).kind = "none"
            /\ ~RaisedInLoop
    /\ (pc \in {"loop", "raised", "returned", "cache_write"} /\ touched # {}) =>
            \A k \in 1..Len(log) :
                log[k].kind = "none" =>
                    /\ RowsOf(Flatten(metadata), data[k]) = 0
                    /\ RowsOf(labels, data[k]) = 0
    /\ Computed =>
            \A k \in 1..Len(log) :
                (log[k].kind = "tuple" /\ Val(Len_x0(log[k].x)) > 0) =>
                    RowsOf(Val(ret).metadata, data[k]) = log[k].nrows
    /\ (Len(data) > 0 /\ Len(log) = Len(data)
            /\ \A k \in 1..Len(log) : log[k].kind = "none") =>
            pc # "raised"

\* C4: a run whose events match but whose windows are all rejected makes
\* get_data print the cautionary message, contributes no row and does not
\* raise, in numeric-array mode and in windowed-signal-object mode alike.
C4_EmptyWindowSetIsSkipped ==
    (raw # None /\ Val(proc).kind = "tuple"
        /\ \A b \in DOMAIN Val(raw).kept : Val(raw).kept[b] = 0) =>
            /\ ~RaisedInLoop
            /\ <<"All epochs were removed in run", LatestKey>> \in printed
            /\ RowsOf(Flatten(metadata), LatestKey) = 0
            /\ RowsOf(labels, LatestKey) = 0

C5_Accepts(a) ==
    /\ a.tmax = None \/ a.tmin < Val(a.tmax)
    /\ a.reject_tmin = None \/ Val(a.reject_tmin) > a.tmin
    /\ a.reject_tmax = None \/ Val(a.reject_tmax) > a.tmin
    /\ (a.reject_tmin # None /\ a.reject_tmax # None)
           => Val(a.reject_tmin) < Val(a.reject_tmax)

C6_RowsFollowTraversalOrder ==
    Computed =>
        LET out == Val(ret)
        IN  /\ \A k \in 1..Len(out.metadata) :
                    \E n \in 1..Len(data) : data[n] = out.metadata[k]
            /\ \A j, k \in 1..Len(out.metadata) :
                    j < k => Position(out.metadata[j]) <= Position(out.metadata[k])
            /\ \A k \in 1..Len(out.metadata) :
                    /\ k <= Len(out.X) /\ out.X[k] = out.metadata[k]
                    /\ k <= Len(out.labels) /\ out.labels[k] = out.metadata[k]

C7_Expected(slf, ds) ==
    /\ ds.paradigm = "p300"
    /\ \/ slf.events = None
       \/ Val(slf.events) = <<>>
       \/ \A k \in 1..Len(Val(slf.events)) : Val(slf.events)[k] \in ds.event_id

C8_CacheFailureNeverRaises ==
    /\ cachefail # {} => ~(pc = "raised" /\ err = "OSError")
    /\ (pc = "returned" /\ "write" \in cachefail) => ret = Some(Result)

\* C9: when the recording has no marker channel and decoding its annotations
\* raises ValueError, the P300 process_raw returns None and get_data goes on
\* with the next run.
C9_AnnotationErrorIsSkipped ==
    (raw # None /\ ~Val(raw).stim /\ Val(raw).annot_error) =>
        /\ Val(proc).kind = "none"
        /\ ~RaisedInLoop

C10_Expected(slf, ds) ==
    LET off == ds.interval[1]
        lo == slf.tmin + off
        hi == IF slf.tmax = None THEN ds.interval[2] ELSE Val(slf.tmax) + off
        wlo == IF slf.baseline = None THEN lo
               ELSE Min(lo, Val(slf.baseline)[1] + off)
        whi == IF slf.baseline = None THEN hi
               ELSE Max(hi, Val(slf.baseline)[2] + off)
    IN  [tmin |-> wlo, tmax |-> whi,
         crop |-> IF wlo < lo \/ whi > hi THEN Some(<<lo, hi>>) ELSE None]

\* C10: with a baseline window configured, mne.Epochs is handed the window
\* [min(tmin, bmin), max(tmax, bmax)], every bound offset by the start of the
\* task interval, and the epochs are cropped back to [tmin, tmax]; with the
\* baseline inside [tmin, tmax], or none, the window handed over is
\* [tmin, tmax] and nothing is cropped.  Both process_raw methods do so.
C10_BaselineWidensExtraction ==
    (pc = "processed" /\ Val(proc).kind = "tuple") =>
        LET e == Val(proc).epoching
            want == C10_Expected(Val(self), dataset)
        IN  /\ e.tmin = want.tmin
            /\ e.tmax = want.tmax
            /\ e.crop = want.crop

\* A process_raw call on one recording has ended (returned or raised).
CallEnded == pc \in {"processed", "raised"} /\ call # None

\* The latest process_raw call on one recording has returned.
CallReturned == pc = "processed" /\ call # None

\* C11: a process_raw call that returns leaves the recording it was handed
\* and the recipe as they were at entry, for every setting of
\* reject_from_eog: the annotations of the recording after the call are those
\* before it, and a second call on the same recording returns what the first
\* returned.
C11_ProcessRawLeavesInputsUnchanged ==
    CallReturned =>
        /\ raw = Some(Val(call).raw)
        /\ self = Some(args)
        /\ Len(log) = MaxCalls => log[1] = log[MaxCalls]

\* The recording of the call has events of the vocabulary, its events were
\* decoded, the named EOG channel is there and every band retained at least
\* one window and as many as the others: nothing but the window bounds can
\* stop the call.
CleanRecording ==
    LET r == Val(call).raw
    IN  /\ ~EogChannelMissing(Val(self), r)
        /\ ~(~r.stim /\ r.annot_error)
        /\ r.nevents > 0
        /\ \A b \in DOMAIN r.kept : r.kept[b] > 0
        /\ Stackable(r.kept)

\* C12: BaseP300.process_raw raises the configuration error exactly when
\* the configured reject_tmax exceeds dataset.interval[1]: with reject_tmax
\* less than or equal to it the recording is processed without error, with
\* reject_tmax greater than it the error is raised.
C12_RejectTmaxRefusedIffBeyondInterval ==
    (CallEnded /\ Val(call).method = "BaseP300.process_raw" /\ CleanRecording
        /\ Val(self).reject_tmax # None) =>
        IF Val(Val(self).reject_tmax) <= dataset.interval[2]
        THEN pc = "processed" /\ Val(proc).kind = "tuple"
        ELSE pc = "raised" /\ err = "ValueError"

\* The recording of the call gets to the band loop and every band retains
\* at least one window.
RetainsWindows ==
    LET r == Val(call).raw
    IN  /\ ~EogChannelMissing(Val(self), r)
        /\ ~(~r.stim /\ r.annot_error)
        /\ \A b \in DOMAIN r.kept : r.kept[b] > 0
        /\ (Val(call).method = "BaseP300.process_raw"
                /\ Val(self).reject_tmax # None)
               => Val(Val(self).reject_tmax) < dataset.interval[2]

\* C13: in numeric-array mode, for a recording with retained windows,
\* process_raw returns an array [windows, channels, samples] with one filter
\* band and an array [windows, channels, samples, band] with several, and
\* the window axis is as long as the label vector, whatever each band's
\* rejection kept.
C13_RankFollowsBandCount ==
    (CallEnded /\ ~Val(call).return_epochs /\ RetainsWindows) =>
        /\ pc = "processed"
        /\ Val(proc).kind = "tuple"
        /\ Val(proc).x.array
        /\ Val(proc).x.axes =
                IF Len(Val(self).filters) = 1
                THEN <<"windows", "channels", "samples">>
                ELSE <<"windows", "channels", "samples", "band">>
        /\ Val(proc).x.rank = IF Len(Val(self).filters) = 1 THEN 3 ELSE 4
        /\ Val(proc).x.windows = Val(proc).nlabels
====
